---- MODULE Spec2Model ----
(***************************************************************************)
(* Model of calendar_app.py: the sqlite-backed event store (add_event,     *)
(* remove_event, update_event_title, get_events), the date formatting and  *)
(* the CalendarApp / EventWidget handlers that filter, group and display   *)
(* the stored events.                                                      *)
(*                                                                         *)
(* A title or search text is a sequence of one-character strings, and the  *)
(* characters of a stored date are at hand, so that lower(), the substring *)
(* test, strptime and the byte-wise comparison of ORDER BY are computed.   *)
(***************************************************************************)
EXTENDS Integers, Sequences, FiniteSets, TLC

\* db            the rows of table events in calendar_data.db
\* selected_date CalendarApp.selected_date
\* search_text   the text of CalendarApp.search_input
\* events        what get_events() returned to the latest rebuild of the list
\* matched       the fetched rows the latest rebuild of the list kept
\* events_list   the items of CalendarApp.events_list, top to bottom
\* view          the handler that built events_list
\* last          the outcome of the latest handler or store call
VARIABLES db, selected_date, search_text, events, matched, events_list, view,
          last

vars ==
  <<db, selected_date, search_text, events, matched, events_list, view, last>>

(***************************************************************************)
(* Bounds and input sets                                                   *)
(***************************************************************************)
\* Rows are inserted only while the rowid to assign does not exceed MaxId.
MaxId == 2

\* Event titles a user types into event_input or the edit dialog.  The
\* empty text is a possible input of both.
Titles == { <<>>, <<"A", "b">>, <<"b">> }

\* Texts a user types into search_input.
SearchTexts == { <<>>, <<"A">> }

\* Categories: two of the five items of the category combo boxes.
Categories == { "Work", "Personal" }

\* The items chosen in CalendarApp.category_input when an event is added.
AddCategories == { "Work" }

\* Dates the calendar widget and the date edits can hold.
Dates == { [year |-> 2023, month |-> 12, day |-> 10],
           [year |-> 2024, month |-> 3, day |-> 1] }

(***************************************************************************)
(* Text helpers: str.lower() and the `in` substring test                   *)
(***************************************************************************)
LowerChar(c) ==
  CASE c = "A" -> "a"
    [] c = "B" -> "b"
    [] OTHER -> c

RECURSIVE lower(_)
lower(s) ==
  IF s = <<>> THEN <<>> ELSE <<LowerChar(Head(s))>> \o lower(Tail(s))

\* Python's `sub in s` on strings.
Contains(sub, s) ==
  \E i \in 0..(Len(s) - Len(sub)) : SubSeq(s, i + 1, i + Len(sub)) = sub

(***************************************************************************)
(* Dates: QDate.toString('yyyy-MM-dd'), the sqlite converter and           *)
(* format_date.  A date text is a string; Characters gives its characters. *)
(***************************************************************************)
\* The function holding the <<argument, value>> pairs of a set: a table of
\* an operator's values, evaluated once.
RECURSIVE TableOf(_)
TableOf(pairs) ==
  IF pairs = {} THEN <<>>
  ELSE LET p == CHOOSE x \in pairs : TRUE
       IN  (p[1] :> p[2]) @@ TableOf(pairs \ {p})

DigitChar == <<"0", "1", "2", "3", "4", "5", "6", "7", "8", "9">>

DigitValues == TableOf({ <<DigitChar[v + 1], v>> : v \in 0..9 })

DigitValue(c) == DigitValues[c]

Pad2(n) == <<DigitChar[((n \div 10) % 10) + 1], DigitChar[(n % 10) + 1]>>

Pad4(n) == Pad2(n \div 100) \o Pad2(n % 100)

\* The string made of the characters of a sequence.
RECURSIVE Join(_)
Join(chars) == IF chars = <<>> THEN "" ELSE Head(chars) \o Join(Tail(chars))

RECURSIVE ParseInt(_)
ParseInt(s) ==
  IF s = <<>> THEN 0
  ELSE 10 * ParseInt(SubSeq(s, 1, Len(s) - 1)) + DigitValue(s[Len(s)])

\* The characters of QDate.toString('yyyy-MM-dd').
QDateChars(d) ==
  Pad4(d.year) \o <<"-">> \o Pad2(d.month) \o <<"-">> \o Pad2(d.day)

\* self.selected_date.toString('yyyy-MM-dd'): the text handed to add_event.
QDateToString(d) == Join(QDateChars(d))

\* The texts the event_date column can hold: add_event is only called with
\* the text of a selected date.
StoredDateTexts == { QDateToString(d) : d \in Dates }

\* The characters of each text the column can hold.
CharacterTable == TableOf({ <<Join(QDateChars(d)), QDateChars(d)>> : d \in Dates })

Characters(text) == CharacterTable[text]

\* datetime.strptime(text, "%Y-%m-%d").
strptime(text) ==
  LET chars == Characters(text)
  IN  [year  |-> ParseInt(SubSeq(chars, 1, 4)),
       month |-> ParseInt(SubSeq(chars, 6, 7)),
       day   |-> ParseInt(SubSeq(chars, 9, 10))]

\* strptime of each text the column can hold, evaluated once.
ParsedDateTexts == TableOf({ <<text, strptime(text)>> : text \in StoredDateTexts })

\* convert_date, run by sqlite3 on every value read from the DATE column.
convert_date(text) == ParsedDateTexts[text]

MonthName ==
  <<"January", "February", "March", "April", "May", "June", "July",
    "August", "September", "October", "November", "December">>

\* strftime's %d: the day of the month as a zero-padded two-digit number.
StrfDay(n) == Join(Pad2(n))

\* strftime's %Y for a four-digit year.
StrfYear(n) == Join(Pad4(n))

\* date.strftime('%d %B, %Y').
strftime(date) ==
  StrfDay(date.day) \o " " \o MonthName[date.month] \o ", " \o StrfYear(date.year)

\* strftime of each date an event can have, evaluated once.
FormattedDates == TableOf({ <<date, strftime(date)>> : date \in Dates })

\* format_date.
format_date(date) == FormattedDates[date]

\* datetime.date comparison (apply_advanced_search compares date values).
DateLess(a, b) ==
  \/ a.year < b.year
  \/ a.year = b.year /\ a.month < b.month
  \/ a.year = b.year /\ a.month = b.month /\ a.day < b.day

(***************************************************************************)
(* The store: table events(id INTEGER PRIMARY KEY, title, event_date,      *)
(* category).  db is the set of rows; event_date holds the stored text.    *)
(***************************************************************************)
\* Byte value of a character of a stored date (ASCII).
CharCode(c) == IF c = "-" THEN 45 ELSE 48 + DigitValue(c)

\* sqlite's BINARY collation on TEXT: byte-wise comparison, the shorter
\* text first when one is a prefix of the other.
RECURSIVE BinaryLess(_, _)
BinaryLess(a, b) ==
  IF b = <<>> THEN FALSE
  ELSE IF a = <<>> THEN TRUE
  ELSE IF Head(a) # Head(b) THEN CharCode(Head(a)) < CharCode(Head(b))
  ELSE BinaryLess(Tail(a), Tail(b))

\* BinaryLess on each pair of texts the column can hold, evaluated once.
BinaryLessTable ==
  TableOf({ <<<<a, b>>, BinaryLess(Characters(a), Characters(b))>>
            : a \in StoredDateTexts, b \in StoredDateTexts })

\* The comparison ORDER BY event_date sorts with.
TextLess(a, b) == BinaryLessTable[<<a, b>>]

MaxOf(S) == CHOOSE m \in S : \A x \in S : x <= m

\* A variant of NewRowid that numbers a new row by the count of the rows:
\* it gives a stored id again once a row below the largest was deleted.
NewRowidByCount(rows) == Cardinality(rows) + 1

\* The rowid sqlite gives a row inserted without an id into a table with
\* an INTEGER PRIMARY KEY column: one more than the largest rowid in use.
NewRowid(rows) ==
  IF rows = {} THEN 1 ELSE MaxOf({r.id : r \in rows}) + 1

\* What a failed execute_query returns: the except branch prints and falls
\* off the end of the function.
None == [none |-> TRUE]

Some(v) == [none |-> FALSE, value |-> v]

\* add_event: INSERT INTO events (title, event_date, category).  With
\* fault (sqlite3.Error inside execute_query) nothing is committed.
add_event(rows, title, event_date, category, fault) ==
  IF fault THEN rows
  ELSE rows \cup { [id |-> NewRowid(rows), title |-> title,
                    event_date |-> event_date, category |-> category] }

\* add_event has no return statement.
add_event_result(rows, title, event_date, category, fault) == None

\* A variant of remove_event whose DELETE compares with <= : it deletes
\* the rows below the given id with it.
remove_event_up_to(rows, event_id, fault) ==
  IF fault THEN rows ELSE { r \in rows : r.id > event_id }

\* remove_event: DELETE FROM events WHERE id = ?
remove_event(rows, event_id, fault) ==
  IF fault THEN rows ELSE { r \in rows : r.id # event_id }

\* update_event_title: UPDATE events SET title = ? WHERE id = ?
update_event_title(rows, event_id, new_title, fault) ==
  IF fault THEN rows
  ELSE { IF r.id = event_id THEN [r EXCEPT !.title = new_title] ELSE r
         : r \in rows }

\* The rows as sqlite3 hands them to Python: the DATE column converted.
FetchedRow(r) ==
  [id |-> r.id, title |-> r.title, event_date |-> convert_date(r.event_date),
   category |-> r.category]

\* ORDER BY event_date: the rows by non-decreasing stored text.  The query
\* names no second key, so among rows with equal event_date any of them
\* may come next: every order SQL allows is a possible result.
RECURSIVE OrderByEventDate(_)
OrderByEventDate(rows) ==
  IF rows = {} THEN { <<>> }
  ELSE LET first == { r \in rows :
                        \A q \in rows : ~TextLess(q.event_date, r.event_date) }
       IN  UNION { { <<r>> \o s : s \in OrderByEventDate(rows \ {r}) }
                   : r \in first }

RECURSIVE MapFetched(_)
MapFetched(s) ==
  IF s = <<>> THEN <<>> ELSE <<FetchedRow(Head(s))>> \o MapFetched(Tail(s))

\* get_events: every value the call can return.  fetchall() gives the
\* list of rows; a failed query gives None.
get_events(rows, fault) ==
  IF fault THEN { None }
  ELSE { Some(MapFetched(s)) : s \in OrderByEventDate(rows) }

(***************************************************************************)
(* Filtering, grouping and the list widget                                 *)
(***************************************************************************)
\* refresh_events keeps an event when the lower-cased search text occurs
\* in its lower-cased title.
SearchKeeps(event, text) == Contains(text, lower(event.title))

\* apply_advanced_search skips an event on a category mismatch or a date
\* outside [from_date, to_date]; a key absent from filters skips nothing.
\* The search text is not read.
AdvancedKeeps(event, filters) ==
  /\ ~("category" \in DOMAIN filters /\ filters["category"] # event.category)
  /\ ~("from_date" \in DOMAIN filters
         /\ DateLess(event.event_date, filters["from_date"]))
  /\ ~("to_date" \in DOMAIN filters
         /\ DateLess(filters["to_date"], event.event_date))

\* The tuple a group holds for an event: (lower-cased title, id, category).
GroupEntry(event) ==
  [event_title |-> lower(event.title), event_id |-> event.id,
   category |-> event.category]

\* A variant of SetDefaultAppend that assigns the one-element list where
\* the code appends: a date keeps only its last event.
SetDefaultAssign(grouped, key, entry) ==
  IF \E i \in 1..Len(grouped) : grouped[i].date = key
  THEN LET i == CHOOSE k \in 1..Len(grouped) : grouped[k].date = key
       IN  [grouped EXCEPT ![i].titles = <<entry>>]
  ELSE Append(grouped, [date |-> key, titles |-> <<entry>>])

\* grouped_events.setdefault(key, []).append(entry) on an insertion-ordered
\* dict, kept as the sequence of its (key, list) pairs.
SetDefaultAppend(grouped, key, entry) ==
  IF \E i \in 1..Len(grouped) : grouped[i].date = key
  THEN LET i == CHOOSE k \in 1..Len(grouped) : grouped[k].date = key
       IN  [grouped EXCEPT ![i].titles = Append(@, entry)]
  ELSE Append(grouped, [date |-> key, titles |-> <<entry>>])

\* The loop body run over the kept events, first to last.
RECURSIVE GroupInto(_, _)
GroupInto(grouped, evs) ==
  IF evs = <<>> THEN grouped
  ELSE GroupInto(SetDefaultAppend(grouped, format_date(Head(evs).event_date),
                                  GroupEntry(Head(evs))),
                 Tail(evs))

GroupByDisplayDate(evs) == GroupInto(<<>>, evs)

RECURSIVE EventItems(_)
EventItems(titles) ==
  IF titles = <<>> THEN <<>>
  ELSE <<[kind |-> "event", event_title |-> Head(titles).event_title,
          event_id |-> Head(titles).event_id,
          category |-> Head(titles).category]>>
       \o EventItems(Tail(titles))

\* for date, titles in grouped_events.items(): one date item, then one
\* EventWidget item per entry.
RECURSIVE ListItems(_)
ListItems(grouped) ==
  IF grouped = <<>> THEN <<>>
  ELSE <<[kind |-> "date", text |-> Head(grouped).date]>>
       \o EventItems(Head(grouped).titles) \o ListItems(Tail(grouped))

\* The events of a fetched list that pass the test of refresh_events
\* (line 295), and those that pass the tests of apply_advanced_search
\* (lines 250-255), in the fetched order.
SearchKept(fetched, text) ==
  IF fetched.none THEN <<>>
  ELSE SelectSeq(fetched.value, LAMBDA e : SearchKeeps(e, text))

AdvancedKept(fetched, filters) ==
  IF fetched.none THEN <<>>
  ELSE SelectSeq(fetched.value, LAMBDA e : AdvancedKeeps(e, filters))

\* The state of the list after a rebuild from `fetched`, the value
\* get_events returned, with `kept` the events that passed the tests.  The
\* list is cleared first; iterating None raises TypeError, which neither
\* handler catches, and leaves the list empty.
Rebuild(fetched, kept) ==
  IF fetched.none
  THEN [events |-> fetched, matched |-> <<>>, events_list |-> <<>>,
        raised |-> "TypeError"]
  ELSE [events |-> fetched, matched |-> kept,
        events_list |-> ListItems(GroupByDisplayDate(kept)),
        raised |-> "none"]

\* A variant of refresh_events that keeps the filters of an advanced
\* search: while the list is the one apply_advanced_search built, it shows
\* again only events that list shows.
refresh_events_keeping_filters(rows, text, fault) ==
  { Rebuild(f, SelectSeq(SearchKept(f, lower(text)),
                         LAMBDA e :
                           view = "apply_advanced_search" =>
                             \E i \in 1..Len(events_list) :
                               /\ events_list[i].kind = "event"
                               /\ events_list[i].event_id = e.id))
    : f \in get_events(rows, fault) }

\* refresh_events: every outcome, one per value get_events can return.
refresh_events(rows, text, fault) ==
  { Rebuild(f, SearchKept(f, lower(text))) : f \in get_events(rows, fault) }

\* apply_advanced_search(filters).
apply_advanced_search(rows, filters, fault) ==
  { Rebuild(f, AdvancedKept(f, filters)) : f \in get_events(rows, fault) }

\* The ids of the events the list shows.
ShownIds(list) ==
  { list[i].event_id : i \in { k \in 1..Len(list) : list[k].kind = "event" } }

(***************************************************************************)
(* Inputs of the handlers                                                  *)
(***************************************************************************)
\* A variant of TitleGiven that takes every text, the empty one too.
TitleGivenAlways(title) == TRUE

\* if title: (CalendarApp.add_event) and the `new_title` half of
\* `if ok and new_title` (EventWidget.edit_event): a non-empty text.
TitleGiven(title) == title # <<>>

\* AdvancedSearchDialog.apply_filters: the dict the dialog leaves in
\* self.filters, by checked boxes.
CategoryFilters == { <<>> } \cup { "category" :> c : c \in Categories }

DateRangeFilters ==
  { <<>> } \cup { ("from_date" :> f) @@ ("to_date" :> t) : f, t \in Dates }

FilterDicts == { c @@ r : c \in CategoryFilters, r \in DateRangeFilters }

\* The indexes of the EventWidget items of the list.
WidgetIndexes == { i \in 1..Len(events_list) : events_list[i].kind = "event" }

\* The new state of the list, taken from one outcome of a rebuild.
Show(o, builder) ==
  /\ events' = o.events
  /\ matched' = o.matched
  /\ events_list' = o.events_list
  /\ view' = builder

\* What a handler leaves behind besides the state above: the message box
\* it showed (message), the exception that left it (raised), and whether
\* it brought back into the list a stored event that the advanced search
\* had left out of it (revealed).
Outcome(message, raised, rebuilt) ==
  [message |-> message, raised |-> raised,
   revealed |-> /\ rebuilt
                /\ view = "apply_advanced_search"
                /\ (ShownIds(events_list') \cap {r.id : r \in db})
                     \ ShownIds(events_list) # {}]

(***************************************************************************)
(* Handlers of CalendarApp and EventWidget.  fw and fr say whether the     *)
(* handler's write and its read of the store raise sqlite3.Error.          *)
(***************************************************************************)
\* CalendarApp.__init__ on an empty database: today's date selected, an
\* empty search box, and the list built by refresh_events.
Init ==
  /\ db = {}
  /\ selected_date \in Dates
  /\ search_text = <<>>
  /\ events = Some(<<>>)
  /\ matched = <<>>
  /\ events_list = <<>>
  /\ view = "refresh_events"
  /\ last = [message |-> "none", raised |-> "none", revealed |-> FALSE]

\* CalendarApp.date_selected.
DateSelected(date) ==
  /\ selected_date' = date
  /\ last' = Outcome("none", "none", FALSE)
  /\ UNCHANGED <<db, search_text, events, matched, events_list, view>>

\* CalendarApp.add_event with `title` in event_input and `category` chosen.
AddEvent(title, category, fw, fr) ==
  IF TitleGiven(title)
  THEN /\ NewRowid(db) <= MaxId
       /\ db' = add_event(db, title, QDateToString(selected_date), category, fw)
       /\ \E o \in refresh_events(db', search_text, fr) :
            /\ Show(o, "refresh_events")
            /\ last' = Outcome("information", o.raised, TRUE)
       /\ UNCHANGED <<selected_date, search_text>>
  ELSE /\ last' = Outcome("warning", "none", FALSE)
       /\ UNCHANGED <<db, selected_date, search_text, events, matched,
                      events_list, view>>

\* EventWidget.edit_event of the widget at item i: the dialog opens with
\* the widget's event_title; the user leaves new_title in it and presses
\* OK (ok) or Cancel.
EditEvent(i, new_title, ok, fw, fr) ==
  /\ i \in WidgetIndexes
  /\ new_title \in Titles \cup { events_list[i].event_title }
  /\ IF ok /\ TitleGiven(new_title)
     THEN /\ db' = update_event_title(db, events_list[i].event_id, new_title, fw)
          /\ \E o \in refresh_events(db', search_text, fr) :
               /\ Show(o, "refresh_events")
               /\ last' = Outcome("none", o.raised, TRUE)
     ELSE /\ last' = Outcome("none", "none", FALSE)
          /\ UNCHANGED <<db, events, matched, events_list, view>>
  /\ UNCHANGED <<selected_date, search_text>>

\* EventWidget.remove_event of the widget at item i; yes is the answer to
\* the confirmation box.
RemoveEvent(i, yes, fw, fr) ==
  /\ i \in WidgetIndexes
  /\ IF yes
     THEN /\ db' = remove_event(db, events_list[i].event_id, fw)
          /\ \E o \in refresh_events(db', search_text, fr) :
               /\ Show(o, "refresh_events")
               /\ last' = Outcome("question", o.raised, TRUE)
     ELSE /\ last' = Outcome("question", "none", FALSE)
          /\ UNCHANGED <<db, events, matched, events_list, view>>
  /\ UNCHANGED <<selected_date, search_text>>

\* search_input.textChanged -> refresh_events.
SearchTextChanged(text, fr) ==
  /\ text # search_text
  /\ search_text' = text
  /\ \E o \in refresh_events(db, text, fr) :
       /\ Show(o, "refresh_events")
       /\ last' = Outcome("none", o.raised, TRUE)
  /\ UNCHANGED <<db, selected_date>>

\* The toolbar's Refresh action -> refresh_events.
Refresh(fr) ==
  /\ \E o \in refresh_events(db, search_text, fr) :
       /\ Show(o, "refresh_events")
       /\ last' = Outcome("none", o.raised, TRUE)
  /\ UNCHANGED <<db, selected_date, search_text>>

\* CalendarApp.show_advanced_search: the dialog is closed by Apply
\* (accepted, leaving filters) or dismissed.
ShowAdvancedSearch(accepted, filters, fr) ==
  /\ IF accepted
     THEN \E o \in apply_advanced_search(db, filters, fr) :
            /\ Show(o, "apply_advanced_search")
            /\ last' = Outcome("none", o.raised, TRUE)
     ELSE /\ filters = <<>>
          /\ fr = FALSE
          /\ last' = Outcome("none", "none", FALSE)
          /\ UNCHANGED <<events, matched, events_list, view>>
  /\ UNCHANGED <<db, selected_date, search_text>>

\* The texts the edit dialog can be left with.
EditTexts == Titles \cup { lower(t) : t \in Titles }

\* The application with a store that does not fail.
Next ==
  \/ \E date \in Dates : DateSelected(date)
  \/ \E title \in Titles, category \in AddCategories :
       AddEvent(title, category, FALSE, FALSE)
  \/ \E i \in 1..Len(events_list), new_title \in EditTexts, ok \in BOOLEAN :
       EditEvent(i, new_title, ok, FALSE, FALSE)
  \/ \E i \in 1..Len(events_list), yes \in BOOLEAN :
       RemoveEvent(i, yes, FALSE, FALSE)
  \/ \E text \in SearchTexts : SearchTextChanged(text, FALSE)
  \/ Refresh(FALSE)
  \/ \E accepted \in BOOLEAN, filters \in FilterDicts :
       ShowAdvancedSearch(accepted, filters, FALSE)

Spec == Init /\ [][Next]_vars

\* The application with a store whose queries may fail.
NextFault ==
  \/ \E date \in Dates : DateSelected(date)
  \/ \E title \in Titles, category \in AddCategories, fw, fr \in BOOLEAN :
       AddEvent(title, category, fw, fr)
  \/ \E i \in 1..Len(events_list), new_title \in EditTexts,
        ok, fw, fr \in BOOLEAN :
       EditEvent(i, new_title, ok, fw, fr)
  \/ \E i \in 1..Len(events_list), yes, fw, fr \in BOOLEAN :
       RemoveEvent(i, yes, fw, fr)
  \/ \E text \in SearchTexts, fr \in BOOLEAN : SearchTextChanged(text, fr)
  \/ \E fr \in BOOLEAN : Refresh(fr)
  \/ \E accepted \in BOOLEAN, filters \in FilterDicts, fr \in BOOLEAN :
       ShowAdvancedSearch(accepted, filters, fr)

SpecFault == Init /\ [][NextFault]_vars

(***************************************************************************)
(* The store's functions called on their own, with any arguments           *)
(***************************************************************************)
\* What a store call leaves behind: the function (call), the value it
\* returned (returned) and whether a row had the id it was given (hit).
StoreOutcome(call, returned, hit) ==
  [call |-> call, returned |-> returned, hit |-> hit]

StoreAdd(title, date, category) ==
  /\ NewRowid(db) <= MaxId
  /\ db' = add_event(db, title, QDateToString(date), category, FALSE)
  /\ last' = StoreOutcome("add_event",
                          add_event_result(db, title, QDateToString(date),
                                           category, FALSE),
                          FALSE)
  /\ UNCHANGED <<selected_date, search_text, events, matched, events_list,
                 view>>

StoreRemove(event_id) ==
  /\ db' = remove_event(db, event_id, FALSE)
  /\ last' = StoreOutcome("remove_event", None,
                          \E r \in db : r.id = event_id)
  /\ UNCHANGED <<selected_date, search_text, events, matched, events_list,
                 view>>

StoreUpdateTitle(event_id, new_title) ==
  /\ db' = update_event_title(db, event_id, new_title, FALSE)
  /\ last' = StoreOutcome("update_event_title", None,
                          \E r \in db : r.id = event_id)
  /\ UNCHANGED <<selected_date, search_text, events, matched, events_list,
                 view>>

StoreGetEvents ==
  /\ \E fetched \in get_events(db, FALSE) :
       last' = StoreOutcome("get_events", fetched, FALSE)
  /\ UNCHANGED <<db, selected_date, search_text, events, matched, events_list,
                 view>>

NextStore ==
  \/ \E title \in Titles, date \in Dates, category \in Categories :
       StoreAdd(title, date, category)
  \/ \E event_id \in 1..MaxId : StoreRemove(event_id)
  \/ \E event_id \in 1..MaxId, new_title \in Titles :
       StoreUpdateTitle(event_id, new_title)
  \/ StoreGetEvents

\* An empty table and no call made yet.
InitStore ==
  /\ db = {}
  /\ selected_date \in Dates
  /\ search_text = <<>>
  /\ events = Some(<<>>)
  /\ matched = <<>>
  /\ events_list = <<>>
  /\ view = "refresh_events"
  /\ last = StoreOutcome("none", None, FALSE)

SpecStore == InitStore /\ [][NextStore]_vars

(***************************************************************************)
(* Notions the properties below are stated with                            *)
(***************************************************************************)
Range(seq) == { seq[i] : i \in 1..Len(seq) }

Ids(rows) == { r.id : r \in rows }

\* A number in decimal, without padding.
RECURSIVE Decimal(_)
Decimal(n) ==
  IF n < 10 THEN DigitChar[n + 1]
  ELSE Decimal(n \div 10) \o DigitChar[(n % 10) + 1]

\* The display form of a date: day of the month without leading zero,
\* full month name, comma, full year ("1 January, 2000").
DisplayForm(date) ==
  Decimal(date.day) \o " " \o MonthName[date.month] \o ", "
    \o Decimal(date.year)

\* An event satisfies every predicate of a filter specification: the text
\* as a case-insensitive substring of the title, the category if one is
\* given, the inclusive date range if one is given.
SatisfiesAll(event, text, filters) ==
  /\ Contains(lower(text), lower(event.title))
  /\ "category" \in DOMAIN filters => event.category = filters["category"]
  /\ "from_date" \in DOMAIN filters =>
       ~DateLess(event.event_date, filters["from_date"])
  /\ "to_date" \in DOMAIN filters =>
       ~DateLess(filters["to_date"], event.event_date)

\* The date items of the list, and the date item an event item is under.
Headers == { i \in 1..Len(events_list) : events_list[i].kind = "date" }

HeaderOf(i) == CHOOSE h \in Headers : h < i /\ \A g \in Headers : g < i => g <= h

\* The item showing the k-th event of matched.
ItemOf(k) ==
  CHOOSE i \in WidgetIndexes : events_list[i].event_id = matched[k].id

\* A date-ordered listing of a set of rows, as get_events hands it over.
IsListingOf(listing, rows) ==
  /\ Len(listing) = Cardinality(rows)
  /\ Range(listing) = { [id |-> r.id, title |-> r.title,
                         event_date |-> strptime(r.event_date),
                         category |-> r.category] : r \in rows }

(***************************************************************************)
(* C1                                                                      *)
(***************************************************************************)
\* C1: the sequence get_events returns is non-decreasing by event_date, and
\* two events of equal event_date appear in ascending id order.
C1_ListAllOrderedByDateThenId ==
  last.call = "get_events" =>
    LET s == last.returned.value
    IN  \A i, j \in 1..Len(s) :
          i < j =>
            \/ DateLess(s[i].event_date, s[j].event_date)
            \/ s[i].event_date = s[j].event_date /\ s[i].id < s[j].id

(***************************************************************************)
(* C2                                                                      *)
(***************************************************************************)
\* C2: in every state, for every date and category, adding with an empty
\* title ends in the validation warning and leaves the stored events as
\* they were.
C2_EmptyTitleRejected ==
  [][ (\E category \in AddCategories : AddEvent(<<>>, category, FALSE, FALSE))
        => db' = db /\ last'.message = "warning" ]_vars

\* C2 witness: an add was refused with the warning while events are stored.
C2_Witness == last.message = "warning" /\ db # {}

(***************************************************************************)
(* C3                                                                      *)
(***************************************************************************)
\* What C3 says of one add_event call but for the returned value: the new
\* row's id is no stored id, and every following listing holds every event
\* of every previous listing plus exactly one event, with that id and the
\* given title, date and category.
C3_AddsExactlyOne(title, date, category) ==
  /\ db \subseteq db'
  /\ Cardinality(db' \ db) = 1
  /\ \A r \in db' \ db :
       /\ r.id \notin Ids(db)
       /\ \A before \in get_events(db, FALSE), after \in get_events(db', FALSE) :
            /\ Len(after.value) = Len(before.value) + 1
            /\ Range(after.value) =
                 Range(before.value)
                   \cup { [id |-> r.id, title |-> title, event_date |-> date,
                           category |-> category] }

C4_StorageFailureContained == last.raised = "none" /\ ~events.none

(***************************************************************************)
(* C5                                                                      *)
(***************************************************************************)
\* C5: the events kept by a search with category and / or date range are
\* exactly the fetched events that satisfy all present predicates, the
\* text of the search box included, in the fetched order.
C5_AllPredicatesApplied ==
  [][ \A filters \in FilterDicts :
        ShowAdvancedSearch(TRUE, filters, FALSE) =>
          matched' = SelectSeq(events'.value,
                               LAMBDA e : SatisfiesAll(e, search_text, filters))
    ]_vars

(***************************************************************************)
(* C6                                                                      *)
(***************************************************************************)
\* C6: after remove_event(id) a listing holds no event with that id and
\* every other event of the previous listing, unchanged; with no such id
\* stored the call leaves the stored events as they were.
C6_RemoveDeletesOnlyThatId ==
  [][ \A event_id \in 1..MaxId :
        StoreRemove(event_id) =>
          /\ \A before \in get_events(db, FALSE),
                after \in get_events(db', FALSE) :
               Range(after.value) =
                 { e \in Range(before.value) : e.id # event_id }
          /\ event_id \notin Ids(db) => db' = db ]_vars

\* C6 witness: remove_event deleted a stored row and another row is left.
C6_Witness == last.call = "remove_event" /\ last.hit /\ db # {}

(***************************************************************************)
(* C7                                                                      *)
(***************************************************************************)
\* C7: the list groups the kept events by date: every kept event is shown
\* exactly once, every date item has an event under it, two events are
\* under the same date item exactly when their dates are equal, the date
\* items come in the order in which their dates first occur among the
\* kept events, and the events under one date item keep their order.
C7_GroupingPartitionsByDate ==
  LET n == Len(matched) IN
  /\ Cardinality(WidgetIndexes) = n
  /\ \A k \in 1..n :
       Cardinality({ i \in WidgetIndexes :
                       events_list[i].event_id = matched[k].id }) = 1
  /\ \A h \in Headers : h + 1 \in WidgetIndexes
  /\ \A k, l \in 1..n :
       (HeaderOf(ItemOf(k)) = HeaderOf(ItemOf(l)))
         <=> (matched[k].event_date = matched[l].event_date)
  /\ \A k, l \in 1..n : k < l => ItemOf(k) < ItemOf(l)

\* C7 witness: two kept events of one date are shown under one date item.
C7_Witness ==
  /\ Len(matched) = 2
  /\ matched[1].event_date = matched[2].event_date
  /\ Cardinality(Headers) = 1

(***************************************************************************)
(* C8                                                                      *)
(***************************************************************************)
\* C8: every date item of the list reads as the display form of the date
\* of the events under it: day of the month without leading zero, full
\* month name, comma, full year.
C8_DateShownWithoutLeadingZero ==
  \A k \in 1..Len(matched) :
    events_list[HeaderOf(ItemOf(k))].text = DisplayForm(matched[k].event_date)

(***************************************************************************)
(* C9                                                                      *)
(***************************************************************************)
\* C9: confirming the edit dialog of a shown event with its text left as
\* it opened leaves the stored events, that event's title included, as
\* they were.
C9_UnmodifiedEditKeepsTitle ==
  [][ \A i \in 1..Len(events_list) :
        (/\ i \in WidgetIndexes
         /\ EditEvent(i, events_list[i].event_title, TRUE, FALSE, FALSE))
          => db' = db ]_vars

(***************************************************************************)
(* C10                                                                     *)
(***************************************************************************)
\* A step of a handler that goes through refresh_events: an add, an edit or
\* a remove that is carried out, a change of the search text, Refresh.
C10_Rebuilds ==
  \/ \E title \in Titles \ {<<>>}, category \in AddCategories :
       AddEvent(title, category, FALSE, FALSE)
  \/ \E i \in 1..Len(events_list), new_title \in EditTexts \ {<<>>} :
       EditEvent(i, new_title, TRUE, FALSE, FALSE)
  \/ \E i \in 1..Len(events_list) : RemoveEvent(i, TRUE, FALSE, FALSE)
  \/ \E text \in SearchTexts : SearchTextChanged(text, FALSE)
  \/ Refresh(FALSE)

\* C10: whatever search built the list before, each such step rebuilds it
\* as the grouping of all stored events whose lower-cased title contains
\* the lower-cased search text; no filter of an advanced search is kept.
C10_RebuildDropsAdvancedFilters ==
  [][ C10_Rebuilds =>
        /\ IsListingOf(matched',
                       { r \in db' :
                           Contains(lower(search_text'), lower(r.title)) })
        /\ ShownIds(events_list') = Ids(Range(matched'))
        /\ events_list' = ListItems(GroupByDisplayDate(matched')) ]_vars

\* C10 witness: a rebuild after an advanced search has brought back a
\* stored event that the advanced search had left out.
C10_Witness == last.revealed

====
